---- MODULE Spec2Model ----
(***************************************************************************)
(* Model of src/refiner.py: the YouTube / PDF content refinement pipeline. *)
(* One run of the script after a button press is one refinement request:   *)
(* extraction, the `if raw_text:` guard, refine_content, the streaming     *)
(* loop that accumulates chunk.text into full_response, and the download   *)
(* button.  Text is a sequence of one-character strings; a Python value is *)
(* a pair <<tag, payload>> so that None and "" are different values.       *)
(***************************************************************************)
EXTENDS Integers, Sequences, FiniteSets, TLC

VARIABLES
    pc,              \* position of the script run
    kind,            \* which button started the run: "none", "youtube", "pdf"
    api_key,         \* sidebar credential (text)
    yt_url,          \* tab1 text input
    uploaded_file,   \* tab2 file uploader: None or a file object
    raw_text,        \* script variable raw_text
    vid_id,          \* script variable vid_id
    stream,          \* script variable stream
    full_response,   \* script variable full_response
    rendered,        \* what output_container.markdown was called with, in order
    download,        \* the st.download_button on the page, or None
    errors,          \* number of st.error messages of this run
    warnings,        \* number of st.warning messages of this run
    fault,           \* where an exception left the script uncaught, or "none"
    calls,           \* per-run call counters of the stages
    svc,             \* what the external extraction service answered this run
    invokedWith,     \* the prompt handed to generate_content, or None
    delivered,       \* the chunk texts the model stream delivered so far
    requests         \* number of button presses handled

vars == <<pc, kind, api_key, yt_url, uploaded_file, raw_text, vid_id, stream,
          full_response, rendered, download, errors, warnings, fault, calls,
          svc, invokedWith, delivered, requests>>

----------------------------------------------------------------------------
(* Bounds of the model *)

MaxUrlSegs == 3
MaxRecords == 2
MaxPages == 2
MaxChunks == 3
MaxRequests == 2

(* Program constant: the {11} of the identifier regex *)
IdLen == 11

----------------------------------------------------------------------------
(* Python values *)

None == <<"None", <<>>>>
Str(s) == <<"str", s>>
Obj(s) == <<"obj", s>>
Text(v) == v[2]

\* Faulty variant: `is not None` instead of truthiness.
IsNotNone(v) == v[1] # "None"

\* Faulty variant: `!= ""` instead of truthiness.
IsNotEmptyStr(v) == v # Str(<<>>)

\* Python truthiness as used by `if raw_text:`, `if stream:`, `if not api_key:`
Truthy(v) ==
    CASE v[1] = "None" -> FALSE
      [] v[1] = "str"  -> v[2] # <<>>
      [] OTHER         -> TRUE

----------------------------------------------------------------------------
(* Sequences *)

RECURSIVE Flatten(_)
Flatten(ss) == IF ss = <<>> THEN <<>> ELSE Head(ss) \o Flatten(Tail(ss))

SeqsUpTo(S, n) == UNION {[1..k -> S] : k \in 0..n}

Last(s) == s[Len(s)]

IsPrefix(s, t) == Len(s) <= Len(t) /\ SubSeq(t, 1, Len(s)) = s

----------------------------------------------------------------------------
(* The identifier regex of extract_youtube_text:                            *)
(*     (?:v=|\/)([0-9A-Za-z_-]{11}).*                                       *)

Digits == {"0", "1", "2", "3", "4", "5", "6", "7", "8", "9"}
Upper == {"A", "B", "C", "D", "E", "F", "G", "H", "I", "J", "K", "L", "M",
          "N", "O", "P", "Q", "R", "S", "T", "U", "V", "W", "X", "Y", "Z"}
Lower == {"a", "b", "c", "d", "e", "f", "g", "h", "i", "j", "k", "l", "m",
          "n", "o", "p", "q", "r", "s", "t", "u", "v", "w", "x", "y", "z"}

\* the character class [0-9A-Za-z_-]
IdClass == Digits \cup Upper \cup Lower \cup {"_", "-"}

\* [0-9A-Za-z_-]{11} matches at position j
ClassRun(url, j) ==
    /\ j + IdLen - 1 <= Len(url)
    /\ \A k \in j..(j + IdLen - 1) : url[k] \in IdClass

\* Where group 1 starts when the pattern matches at position i, else 0.
\* The alternation tries `v=` first, then `/`; the trailing .* always matches.
GroupAt(url, i) ==
    IF url[i] = "v" /\ i < Len(url) /\ url[i + 1] = "=" /\ ClassRun(url, i + 2)
    THEN i + 2
    ELSE IF url[i] = "/" /\ ClassRun(url, i + 1)
    THEN i + 1
    ELSE 0

\* re.search scans start positions left to right and returns the first match;
\* the result is group(1), or None when there is no match object.
RECURSIVE Scan(_, _)
Scan(url, i) ==
    IF i > Len(url) THEN None
    ELSE IF GroupAt(url, i) # 0
         THEN Str(SubSeq(url, GroupAt(url, i), GroupAt(url, i) + IdLen - 1))
         ELSE Scan(url, i + 1)

re_search(url) == Scan(url, 1)

----------------------------------------------------------------------------
(* str.join *)

RECURSIVE joinNoSep(_, _)
joinNoSep(sep, items) ==
    IF items = <<>> THEN <<>> ELSE Head(items) \o joinNoSep(sep, Tail(items))

RECURSIVE join(_, _)
join(sep, items) ==
    IF items = <<>> THEN <<>>
    ELSE IF Len(items) = 1 THEN items[1]
    ELSE items[1] \o sep \o join(sep, Tail(items))

----------------------------------------------------------------------------
(* External answers.  An answer is <<"raise", <<>>>> or <<"ok", payload>>.  *)

Raise == <<"raise", <<>>>>
Ok(x) == <<"ok", x>>

\* Faulty variant: a URL without identifier still reaches the transcript service.
extract_youtube_text_lenient(url, answer) ==
    LET m == re_search(url)
        tr == answer[2]
    IN  IF answer[1] = "raise"
        THEN [text |-> None, video_id |-> None, errors |-> 1, service |-> 1]
        ELSE [text |-> Str(join(<<" ">>, [i \in 1..Len(tr) |-> tr[i].text])),
              video_id |-> m, errors |-> 0, service |-> 1]

\* extract_youtube_text(url): `answer` is what get_transcript does when called.
\* No match: re.search returns None, .group raises, the except clause reports.
extract_youtube_text(url, answer) ==
    LET m == re_search(url)
        tr == answer[2]
    IN  IF m = None
        THEN [text |-> None, video_id |-> None, errors |-> 1, service |-> 0]
        ELSE IF answer[1] = "raise"
        THEN [text |-> None, video_id |-> None, errors |-> 1, service |-> 1]
        ELSE [text |-> Str(join(<<" ">>, [i \in 1..Len(tr) |-> tr[i].text])),
              video_id |-> m, errors |-> 0, service |-> 1]

\* The page loop of extract_pdf_text: text += page.extract_text() + "\n".
\* A page is Str(text) or Raise (extract_text raised).
RECURSIVE PageLoop(_, _)
PageLoop(pages, text) ==
    IF pages = <<>> THEN Str(text)
    ELSE IF Head(pages) = Raise THEN None
    ELSE PageLoop(Tail(pages), text \o Text(Head(pages)) \o <<"\n">>)

\* extract_pdf_text(uploaded_file): `answer` is what PdfReader does.
extract_pdf_text(answer) ==
    LET text == IF answer[1] = "raise" THEN None ELSE PageLoop(answer[2], <<>>)
    IN  [text |-> text, errors |-> IF text = None THEN 1 ELSE 0]

----------------------------------------------------------------------------
(* refine_content *)

\* how an f-string renders a value
Format(v) == IF v = None THEN <<"N", "o", "n", "e">> ELSE Text(v)

\* sys_prompt: the fixed template around content_type, then the raw text
sys_prompt(raw, content_type) ==
    <<"You are an expert Knowledge Architect. Convert the following raw ",
      content_type, " RULES 1-6 ", "RAW CONTENT STARTS BELOW:">> \o Format(raw)

RefineOutcomes == {"ok", "configure_raises", "model_raises", "generate_raises"}

\* Faulty variant: a failed generation request is issued a second time.
refine_content_retry(raw, content_type, outcome) ==
    CASE outcome \in {"configure_raises", "model_raises"} ->
            [ret |-> None, errors |-> 0, generate |-> 0, raised |-> TRUE,
             prompt |-> None]
      [] outcome = "generate_raises" ->
            [ret |-> None, errors |-> 1, generate |-> 2, raised |-> FALSE,
             prompt |-> Str(sys_prompt(raw, content_type))]
      [] OTHER ->
            [ret |-> Obj(<<>>), errors |-> 0, generate |-> 1, raised |-> FALSE,
             prompt |-> Str(sys_prompt(raw, content_type))]

\* refine_content(raw_text, content_type): genai.configure and GenerativeModel
\* run before the try block, model.generate_content inside it.
refine_content(raw, content_type, outcome) ==
    CASE outcome \in {"configure_raises", "model_raises"} ->
            [ret |-> None, errors |-> 0, generate |-> 0, raised |-> TRUE,
             prompt |-> None]
      [] outcome = "generate_raises" ->
            [ret |-> None, errors |-> 1, generate |-> 1, raised |-> FALSE,
             prompt |-> Str(sys_prompt(raw, content_type))]
      [] OTHER ->
            [ret |-> Obj(<<>>), errors |-> 0, generate |-> 1, raised |-> FALSE,
             prompt |-> Str(sys_prompt(raw, content_type))]

----------------------------------------------------------------------------
(* Inputs and external answers the runs are explored with *)

Keys == {<<>>, <<"k">>}

VideoToken == <<"d", "Q", "w", "4", "w", "9", "W", "g", "X", "c", "Q">>

UrlSegments == {<<"v", "=">>, <<"/">>, VideoToken, <<"a", "b", "c">>}

Urls == {Flatten(s) : s \in SeqsUpTo(UrlSegments, MaxUrlSegs)}

CaptionTexts == {<<"H", "i", " ">>, <<"y", "o">>}

TranscriptAnswers ==
    {Raise} \cup {Ok(t) : t \in SeqsUpTo([text : CaptionTexts], MaxRecords)}

Files == {None, Obj(<<"f", ".", "p", "d", "f">>)}

PageResults == {Str(<<>>), Str(<<"p">>), Raise}

PdfAnswers == {Raise} \cup {Ok(p) : p \in SeqsUpTo(PageResults, MaxPages)}

ChunkTexts == {<<>>, <<"#", " ">>, <<"x">>}

NoCalls == [extract |-> 0, service |-> 0, invoke |-> 0, generate |-> 0]

NoAnswer == <<"none", <<>>>>

Terminal == {"halted", "complete", "crashed"}

ContentType == IF kind = "youtube" THEN "Video Transcript" ELSE "PDF Document"

----------------------------------------------------------------------------
(* The script *)

Init ==
    /\ pc = "idle"
    /\ kind = "none"
    /\ api_key = Str(<<>>)
    /\ yt_url = None
    /\ uploaded_file = None
    /\ raw_text = None
    /\ vid_id = None
    /\ stream = None
    /\ full_response = None
    /\ rendered = <<>>
    /\ download = None
    /\ errors = 0
    /\ warnings = 0
    /\ fault = "none"
    /\ calls = NoCalls
    /\ svc = NoAnswer
    /\ invokedWith = None
    /\ delivered = <<>>
    /\ requests = 0

\* A button is pressed and the script runs again from the top: the page is
\* rebuilt, every script name is unbound again, the sidebar reads the key.
Rerun ==
    /\ pc \in {"idle"} \cup Terminal
    /\ requests < MaxRequests
    /\ requests' = requests + 1
    /\ pc' = "tabs"
    /\ kind' \in {"youtube", "pdf"}
    /\ api_key' \in {Str(k) : k \in Keys}
    /\ yt_url' = None
    /\ uploaded_file' = None
    /\ raw_text' = None
    /\ vid_id' = None
    /\ stream' = None
    /\ full_response' = None
    /\ rendered' = <<>>
    /\ download' = None
    /\ errors' = 0
    /\ warnings' = 0
    /\ fault' = "none"
    /\ calls' = NoCalls
    /\ svc' = NoAnswer
    /\ invokedWith' = None
    /\ delivered' = <<>>

\* tab1: the URL input and the guards of the "Refine Video" branch
Tab1Button ==
    /\ pc = "tabs"
    /\ kind = "youtube"
    /\ \E u \in Urls :
        /\ yt_url' = Str(u)
        /\ IF ~Truthy(api_key) \/ ~Truthy(Str(u))
           THEN pc' = "halted" /\ warnings' = warnings + 1
           ELSE pc' = "extract" /\ warnings' = warnings
    /\ UNCHANGED <<kind, api_key, uploaded_file, raw_text, vid_id, stream,
                   full_response, rendered, download, errors, fault, calls,
                   svc, invokedWith, delivered, requests>>

\* tab2: the file uploader and the guards of the "Refine Document" branch
Tab2Button ==
    /\ pc = "tabs"
    /\ kind = "pdf"
    /\ \E f \in Files :
        /\ uploaded_file' = f
        /\ IF ~Truthy(api_key) \/ ~Truthy(f)
           THEN pc' = "halted" /\ warnings' = warnings + 1
           ELSE pc' = "extract" /\ warnings' = warnings
    /\ UNCHANGED <<kind, api_key, yt_url, raw_text, vid_id, stream,
                   full_response, rendered, download, errors, fault, calls,
                   svc, invokedWith, delivered, requests>>

\* tab1: raw_text, vid_id = extract_youtube_text(yt_url); if raw_text:
ExtractYoutube ==
    /\ pc = "extract"
    /\ kind = "youtube"
    /\ \E answer \in TranscriptAnswers :
        LET r == extract_youtube_text(Text(yt_url), answer)
        IN  /\ raw_text' = r.text
            /\ vid_id' = r.video_id
            /\ errors' = errors + r.errors
            /\ calls' = [calls EXCEPT !.extract = @ + 1,
                                      !.service = @ + r.service]
            /\ svc' = IF r.service = 0 THEN NoAnswer ELSE answer
            /\ pc' = IF Truthy(r.text) THEN "invoke" ELSE "halted"
    /\ UNCHANGED <<kind, api_key, yt_url, uploaded_file, stream,
                   full_response, rendered, download, warnings, fault,
                   invokedWith, delivered, requests>>

\* tab2: raw_text = extract_pdf_text(uploaded_file); if raw_text:
ExtractPdf ==
    /\ pc = "extract"
    /\ kind = "pdf"
    /\ \E answer \in PdfAnswers :
        LET r == extract_pdf_text(answer)
        IN  /\ raw_text' = r.text
            /\ errors' = errors + r.errors
            /\ calls' = [calls EXCEPT !.extract = @ + 1, !.service = @ + 1]
            /\ svc' = answer
            /\ pc' = IF Truthy(r.text) THEN "invoke" ELSE "halted"
    /\ UNCHANGED <<kind, api_key, yt_url, uploaded_file, vid_id, stream,
                   full_response, rendered, download, warnings, fault,
                   invokedWith, delivered, requests>>

\* Faulty variant: the accumulator is not reset before the stream is opened.
StaleAccumulator == full_response

\* full_response = ""
FreshAccumulator == Str(<<>>)

\* output_container = st.empty(); full_response = "";
\* stream = refine_content(raw_text, ...); if stream:
RefineContent ==
    /\ pc = "invoke"
    /\ \E outcome \in RefineOutcomes :
        LET r == refine_content(raw_text, ContentType, outcome)
        IN  /\ full_response' = FreshAccumulator
            /\ rendered' = <<>>
            /\ stream' = r.ret
            /\ invokedWith' = r.prompt
            /\ errors' = errors + r.errors
            /\ calls' = [calls EXCEPT !.invoke = @ + 1,
                                      !.generate = @ + r.generate]
            /\ IF r.raised
               THEN pc' = "crashed" /\ fault' = "invoke"
               ELSE /\ fault' = fault
                    /\ pc' = IF Truthy(r.ret) THEN "stream" ELSE "halted"
    /\ UNCHANGED <<kind, api_key, yt_url, uploaded_file, raw_text, vid_id,
                   download, warnings, svc, delivered, requests>>

\* Faulty variant: put the newest fragment in front.
Prepend(acc, text) == Str(text \o Text(acc))

\* full_response += chunk.text
Accumulate(acc, text) == Str(Text(acc) \o text)

\* one iteration of `for chunk in stream:`
StreamChunk ==
    /\ pc = "stream"
    /\ Len(delivered) < MaxChunks
    /\ \E t \in ChunkTexts :
        /\ delivered' = Append(delivered, t)
        /\ full_response' = Accumulate(full_response, t)
        /\ rendered' = Append(rendered, Accumulate(full_response, t))
    /\ UNCHANGED <<pc, kind, api_key, yt_url, uploaded_file, raw_text, vid_id,
                   stream, download, errors, warnings, fault, calls, svc,
                   invokedWith, requests>>

FileName ==
    IF kind = "youtube"
    THEN <<"refined_video_">> \o Format(vid_id) \o <<".md">>
    ELSE <<"refined_">> \o Format(uploaded_file) \o <<".md">>

\* Faulty variant: the download is offered although the stream raised.
StreamRaiseThenExport ==
    /\ pc = "stream"
    /\ pc' = "crashed"
    /\ fault' = "stream"
    /\ download' = <<"button", [data |-> full_response, file_name |-> FileName]>>
    /\ UNCHANGED <<kind, api_key, yt_url, uploaded_file, raw_text, vid_id,
                   stream, full_response, rendered, errors, warnings,
                   calls, svc, invokedWith, delivered, requests>>

\* the stream raises while the loop pulls the next chunk: nothing catches it
StreamRaise ==
    /\ pc = "stream"
    /\ pc' = "crashed"
    /\ fault' = "stream"
    /\ UNCHANGED <<kind, api_key, yt_url, uploaded_file, raw_text, vid_id,
                   stream, full_response, rendered, download, errors, warnings,
                   calls, svc, invokedWith, delivered, requests>>

\* the loop ends and st.download_button is reached
StreamExhausted ==
    /\ pc = "stream"
    /\ pc' = "complete"
    /\ download' = <<"button", [data |-> full_response, file_name |-> FileName]>>
    /\ UNCHANGED <<kind, api_key, yt_url, uploaded_file, raw_text, vid_id,
                   stream, full_response, rendered, errors, warnings, fault,
                   calls, svc, invokedWith, delivered, requests>>

Next ==
    \/ Rerun
    \/ Tab1Button
    \/ Tab2Button
    \/ ExtractYoutube
    \/ ExtractPdf
    \/ RefineContent
    \/ StreamChunk
    \/ StreamRaise
    \/ StreamExhausted

Spec == Init /\ [][Next]_vars

----------------------------------------------------------------------------
(* Properties *)

IsNone(v) == v[1] = "None"

RECURSIVE TotalLen(_)
TotalLen(ss) == IF ss = <<>> THEN 0 ELSE Len(Head(ss)) + TotalLen(Tail(ss))

\* the URL holds `v=` or `/` directly followed by IdLen identifier characters
SeparatorAt(url, i) ==
    \/ url[i] = "/" /\ ClassRun(url, i + 1)
    \/ url[i] = "v" /\ i < Len(url) /\ url[i + 1] = "=" /\ ClassRun(url, i + 2)

HasId(url) == \E i \in 1..Len(url) : SeparatorAt(url, i)

\* the state of the aggregation of the current request
AggState(p, f) ==
    CASE p = "stream" -> "Streaming"
      [] p = "complete" -> "Complete"
      [] p = "crashed" /\ f = "stream" -> "Failed"
      [] OTHER -> "Idle"

\* C1: the rendered partials never shrink, each is a prefix of the next, and
\* after exhaustion the last partial (and full_response) is the concatenation
\* of all delivered fragments in delivery order.
C1_PartialsGrowToConcatenation ==
    /\ \A i \in 1..(Len(rendered) - 1) :
          /\ Len(Text(rendered[i])) <= Len(Text(rendered[i + 1]))
          /\ IsPrefix(Text(rendered[i]), Text(rendered[i + 1]))
    /\ Len(rendered) = Len(delivered)
    /\ pc = "complete" =>
          /\ Text(full_response) = Flatten(delivered)
          /\ rendered # <<>> => Text(Last(rendered)) = Flatten(delivered)

C1_Witness ==
    /\ pc = "complete"
    /\ Len(delivered) = 3
    /\ delivered[1] = <<"#", " ">>
    /\ delivered[2] = <<"x">>

\* C2: when the stream raises after k > 0 fragments, the last rendered
\* partial is the concatenation of those k fragments, the run is not Complete,
\* and the failure is caught and surfaced as a message instead of leaving the
\* script as a raised exception.
C2_MidStreamFailureCaught ==
    [][(StreamRaise /\ Len(delivered) > 0) =>
          /\ Text(Last(rendered')) = Flatten(delivered')
          /\ pc' # "complete"
          /\ fault' = "none"
          /\ errors' = errors + 1]_vars

C4_RefineContentNeverRaises ==
    (calls.invoke = 1 /\ IsNone(stream)) => (fault = "none" /\ errors = 1)

\* C5: extract_youtube_text never raises; a URL without identifier, and a
\* failing transcript service, both give (None, None) and exactly one error
\* message, and without identifier the service is not called.
C5_YoutubeFailuresReturnNone ==
    (kind = "youtube" /\ calls.extract = 1) =>
        /\ pc \in {"invoke", "halted", "stream", "complete", "crashed"}
        /\ fault \in {"none", "invoke", "stream"}
        /\ ~HasId(Text(yt_url)) =>
              /\ IsNone(raw_text) /\ IsNone(vid_id)
              /\ errors = 1
              /\ calls.service = 0
              /\ pc = "halted"
        /\ svc = Raise =>
              /\ IsNone(raw_text) /\ IsNone(vid_id)
              /\ errors = 1
              /\ calls.service = 1
              /\ pc = "halted"

C5_Witness ==
    /\ kind = "youtube"
    /\ calls.extract = 1
    /\ yt_url = Str(<<"v", "=", "a", "b", "c">>)
    /\ errors = 1

\* C6: after a failed extraction (None) the Invoker is never called and nothing
\* is rendered; after the Invoker returned None the loop never starts, nothing
\* is rendered and no download is offered.  Both tabs.
C6_StageGating ==
    /\ (calls.extract = 1 /\ IsNone(raw_text)) =>
          /\ calls.invoke = 0
          /\ calls.generate = 0
          /\ rendered = <<>>
          /\ delivered = <<>>
          /\ IsNone(download)
    /\ (calls.invoke = 1 /\ IsNone(stream)) =>
          /\ pc \in {"halted", "crashed"}
          /\ rendered = <<>>
          /\ delivered = <<>>
          /\ IsNone(download)

C6_Witness ==
    /\ kind = "pdf"
    /\ calls.extract = 1
    /\ IsNone(raw_text)
    /\ errors = 1
    /\ pc = "halted"

\* C7: one request makes at most one extraction call and at most one
\* generation request, whatever fails.
C7_NoRetry ==
    /\ calls.extract <= 1
    /\ calls.service <= 1
    /\ calls.invoke <= 1
    /\ calls.generate <= 1

C7_Witness ==
    /\ pc = "halted"
    /\ calls.extract = 1
    /\ calls.invoke = 1
    /\ calls.generate = 1
    /\ IsNone(stream)
    /\ errors = 1

\* offset of record i's text in the joined transcript
JoinOffset(texts, i) == TotalLen(SubSeq(texts, 1, i - 1)) + (i - 1)

\* C8: the extracted text is the records' text fields in order, each whole,
\* with exactly one space between neighbours, and the identifier is the
\* regex's group: the IdLen characters after the leftmost separator that has
\* IdLen identifier characters behind it.
C8_TranscriptJoin ==
    (kind = "youtube" /\ calls.extract = 1 /\ svc[1] = "ok") =>
        LET tr == svc[2]
            texts == [i \in 1..Len(tr) |-> tr[i].text]
            out == Text(raw_text)
            url == Text(yt_url)
        IN  /\ raw_text[1] = "str"
            /\ Len(out) = TotalLen(texts)
                            + (IF Len(texts) = 0 THEN 0 ELSE Len(texts) - 1)
            /\ \A i \in 1..Len(texts) :
                  SubSeq(out, JoinOffset(texts, i) + 1,
                         JoinOffset(texts, i) + Len(texts[i])) = texts[i]
            /\ \A i \in 1..(Len(texts) - 1) :
                  out[JoinOffset(texts, i) + Len(texts[i]) + 1] = " "
            /\ vid_id[1] = "str"
            /\ \E i \in 1..Len(url) :
                  /\ SeparatorAt(url, i)
                  /\ \A j \in 1..(i - 1) : ~SeparatorAt(url, j)
                  /\ LET g == IF url[i] = "/" THEN i + 1 ELSE i + 2
                     IN  Text(vid_id) = SubSeq(url, g, g + IdLen - 1)

C8_Witness ==
    /\ kind = "youtube"
    /\ calls.extract = 1
    /\ svc = Ok(<<[text |-> <<"H", "i", " ">>], [text |-> <<"y", "o">>]>>)
    /\ raw_text = Str(<<"H", "i", " ", " ", "y", "o">>)
    /\ yt_url = Str(<<"/">> \o <<"a", "b", "c">> \o VideoToken)
    /\ vid_id = Str(<<"a", "b", "c", "d", "Q", "w", "4", "w", "9", "W", "g">>)

\* C9: the aggregation goes Idle -> Streaming -> Complete or Failed; in a
\* terminal state nothing more is consumed or appended until a new request,
\* and every aggregation starts from an empty accumulator.
C9_AggregatorStateMachine ==
    [][LET a == AggState(pc, fault)
           b == AggState(pc', fault')
       IN  /\ a = "Idle" => b \in {"Idle", "Streaming"}
           /\ a = "Streaming" => b \in {"Streaming", "Complete", "Failed"}
           /\ a \in {"Complete", "Failed"} =>
                 /\ b = "Idle"
                 /\ requests' = requests + 1
                 /\ delivered' = <<>>
                 /\ rendered' = <<>>
                 /\ IsNone(full_response')
           /\ (a # "Streaming" /\ b = "Streaming") =>
                 /\ full_response' = Str(<<>>)
                 /\ delivered' = <<>>
                 /\ rendered' = <<>>
           /\ b = "Streaming" => Text(full_response') = Flatten(delivered')
      ]_vars

C9_Witness ==
    /\ requests = 2
    /\ pc = "crashed"
    /\ fault = "stream"
    /\ delivered = <<<<"x">>, <<"#", " ">>>>
    /\ full_response = Str(<<"x", "#", " ">>)

\* C10: a download is on the page only after the loop ran to exhaustion, its
\* data is full_response, the concatenation of all fragments and the last
\* rendered partial; no download after a failed extraction, a None stream or
\* a raising stream.
C10_DownloadOnlyWhenComplete ==
    /\ ~IsNone(download) =>
          /\ pc = "complete"
          /\ download[2].data = full_response
          /\ Text(download[2].data) = Flatten(delivered)
          /\ rendered # <<>> => download[2].data = Last(rendered)
    /\ pc \in {"halted", "crashed"} => IsNone(download)
    /\ pc = "complete" => ~IsNone(download)

C10_Witness ==
    /\ pc = "complete"
    /\ ~IsNone(download)
    /\ Len(delivered) = 2
    /\ download[2].data = Str(<<"#", " ", "x">>)

====
